---- MODULE Spec2Model ----
(***************************************************************************)
(* Study Buddy: the in-process fixed-window rate limiter (rateLimit, its   *)
(* module-level store and sweep timer), the route chains of the two        *)
(* endpoints it is meant to protect, the chat endpoint and its storage,    *)
(* the task and course routes, and the chat and onboarding client pages.   *)
(***************************************************************************)
EXTENDS Integers, Sequences, FiniteSets, TLC

(***************************************************************************)
(* Bounds of the exploration.                                              *)
(***************************************************************************)
\* calls explored on one entry beyond the limiter's ceiling
MaxOver == 2

\* chunks one completion stream yields at most
MaxChunks == 3

\* delta.content of a chunk: absent or empty, or a piece of text
ChunkContents == {"", "a", "b"}

\* bodies posted to the chat endpoint: content missing, or a message
ChatBodies == {"", "hi"}

\* the instants (ms since module load) at which Date.now() is read
ClockValues == {0, 500, 1500, 2000, 60000, 300000, 300001}

\* options objects passed to rateLimit(): none, ceiling and window, or ceiling and message
OptMaxRequests == {-1, 0, 1, 2}

OptWindowMs == {1500}

OptionChoices ==
    {[k \in {} |-> 0]}
    \cup {[maxRequests |-> m, windowMs |-> w] : m \in OptMaxRequests, w \in OptWindowMs}
    \cup {[maxRequests |-> 1, message |-> "slow down"]}

\* incoming requests: an authenticated user, and an anonymous caller known by address
Requests ==
    { [sub |-> "u1", ip |-> "10.0.0.1", remoteAddress |-> "10.0.0.1"],
      [sub |-> "",   ip |-> "10.0.0.1", remoteAddress |-> "10.0.0.1"] }

\* requests received by the HTTP routes in one exploration
MaxInflight == 2

(***************************************************************************)
(* Program constants.                                                      *)
(***************************************************************************)
SweepIntervalMs == 5 * 60 * 1000

DefaultWindowMs == 60 * 1000

DefaultMaxRequests == 10

DefaultMessage == "Too many requests. Please wait before trying again."

LimiterNames == {"limiter", "aiRateLimit", "parseRateLimit"}

(***************************************************************************)
(* State.                                                                  *)
(***************************************************************************)
VARIABLES
    now,             \* the value Date.now() returns
    rateLimitStore,  \* Map<string, RateLimitEntry>: key -> [count, resetTime]
    nextSweep,       \* due time of the setInterval sweep
    options,         \* the options the limiter under exercise was built from
    res,             \* the response object of the most recent middleware call
    lastCall,        \* that call: limiter, key, time, its number on the entry,
                     \* the entry it looked up and the entry it left in the store
    tally,           \* per key and limiter: calls admitted / rejected on the current entry
    requests,        \* the requests received by the routes, in order of arrival
    swept,           \* the most recent sweep: its time, the keys it kept, the entries it deleted
    unswept,         \* the store as the same calls would have left it had no sweep ever run
    admitLog,        \* per key: the times of the admitted calls of the last windowMs
    keyed            \* a request handed to defaultKeyGenerator, and the key returned

\* state of the rate limiter, its sweep timer and the recorded calls
limiterVars == <<now, rateLimitStore, nextSweep, options, res, lastCall, tally, requests,
                 swept, unswept, admitLog, keyed>>

VARIABLES
    chatReq,            \* POST /api/study-chats/message: the request, [sub, content]
    chatPc,             \* the await the handler of that request has reached
    chat,               \* const chat: the row getCurrentStudyChat returned, as << row >>
    chatRes,            \* its response: headersSent, statusCode, JSON body, SSE events, ended
    fullResponse,       \* let fullResponse
    upstream,           \* every chunk the completion stream has yielded so far
    thrownAt,           \* the await whose rejection reached the catch block, "" if none
    studyChats,         \* table study_chats, in insertion order
    studyChatMessages   \* table study_chat_messages, in insertion order

chatVars == <<chatReq, chatPc, chat, chatRes, fullResponse, upstream, thrownAt,
              studyChats, studyChatMessages>>

\* the response object before the handler has touched it
FreshChatResponse ==
    [headersSent |-> FALSE, statusCode |-> 200, body |-> <<>>, events |-> <<>>, ended |-> FALSE]

\* no chat request has been received
ChatInitial ==
    /\ chatReq = [sub |-> "", content |-> ""]
    /\ chatPc = "idle"
    /\ chat = <<>>
    /\ chatRes = FreshChatResponse
    /\ fullResponse = ""
    /\ upstream = <<>>
    /\ thrownAt = ""
    /\ studyChats = <<>>
    /\ studyChatMessages = <<>>

VARIABLES
    calls               \* the storage.getCurrentStudyChat calls in progress: per call
                        \* its userId, the await it has reached, its local chat and
                        \* the value it returned

\* no call of getCurrentStudyChat has been started
CallsInitial == calls = <<>>

VARIABLES
    tasks,              \* table tasks: id -> row
    courses,            \* table courses: id -> row
    apiRequest          \* the most recent request to the task and course routes, and its status

ownerVars == <<tasks, courses, apiRequest>>

\* no request has been made to the task and course routes
NoApiRequest == [sub |-> "", route |-> "", id |-> 0, statusCode |-> 0]

OwnerInitial ==
    /\ tasks = <<>>
    /\ courses = <<>>
    /\ apiRequest = NoApiRequest

VARIABLES
    sentEvents,         \* chat client: the events the server wrote for the response
    wire,               \* the response body they make, character by character
    readPos,            \* how much of it reader.read() has handed over
    assistantContent,   \* let assistantContent
    readerDone          \* reader.read() has reported done

readerVars == <<sentEvents, wire, readPos, assistantContent, readerDone>>

ReaderInitial ==
    /\ sentEvents = <<>>
    /\ wire = <<>>
    /\ readPos = 0
    /\ assistantContent = ""
    /\ readerDone = FALSE

VARIABLES
    step,               \* onboarding: const [step, setStep] = useState(1)
    university,         \* const [university, setUniversity] = useState(""), its characters
    major,              \* const [major, setMajor] = useState("")
    year,               \* const [year, setYear] = useState("")
    isPending,          \* completeOnboarding.isPending
    toastTitle,         \* title of the toast shown last, "" if none
    submitted           \* the bodies completeOnboarding has posted, each with the step it was posted at

wizardVars == <<step, university, major, year, isPending, toastTitle, submitted>>

WizardInitial ==
    /\ step = 1
    /\ university = <<>>
    /\ major = ""
    /\ year = ""
    /\ isPending = FALSE
    /\ toastTitle = ""
    /\ submitted = <<>>

\* what the chat handler never touches
outsideChat == <<limiterVars, calls, ownerVars, readerVars, wizardVars>>

OutsideChatInitial == CallsInitial /\ OwnerInitial /\ ReaderInitial /\ WizardInitial

\* what concurrent getCurrentStudyChat calls never touch
outsideCalls == <<limiterVars, chatReq, chatPc, chat, chatRes, fullResponse, upstream, thrownAt,
                  ownerVars, readerVars, wizardVars>>

\* what the task and course routes never touch
outsideOwner == <<limiterVars, chatVars, calls, readerVars, wizardVars>>

\* what the chat client never touches
outsideReader == <<limiterVars, chatVars, calls, ownerVars, wizardVars>>

\* what the onboarding page never touches
outsideWizard == <<limiterVars, chatVars, calls, ownerVars, readerVars>>

\* everything outside the rate limiter
appVars == <<chatVars, calls, ownerVars, readerVars, wizardVars>>

AppInitial == ChatInitial /\ CallsInitial /\ OwnerInitial /\ ReaderInitial /\ WizardInitial

vars == <<limiterVars, appVars>>

(***************************************************************************)
(* Helpers.                                                                *)
(***************************************************************************)
\* Math.ceil(a / b) for integers a and b > 0
Ceil(a, b) == -((-a) \div b)

\* Math.max(a, b)
Max(a, b) == IF a >= b THEN a ELSE b

\* variant: the identifier is returned as it is, without the user: / ip: prefix
defaultKeyGenerator_NoPrefix(req) ==
    IF req.sub # ""
    THEN req.sub
    ELSE IF req.ip # "" THEN req.ip
         ELSE IF req.remoteAddress # "" THEN req.remoteAddress
         ELSE "unknown"

\* req.user?.claims?.sub, else req.ip || req.socket?.remoteAddress || "unknown"
defaultKeyGenerator(req) ==
    IF req.sub # ""
    THEN "user:" \o req.sub
    ELSE "ip:" \o (IF req.ip # "" THEN req.ip
                   ELSE IF req.remoteAddress # "" THEN req.remoteAddress
                   ELSE "unknown")

\* rateLimit(options): the closure's configuration, defaults filled in
rateLimit(opts) ==
    [ windowMs     |-> IF "windowMs" \in DOMAIN opts THEN opts.windowMs ELSE DefaultWindowMs,
      maxRequests  |-> IF "maxRequests" \in DOMAIN opts THEN opts.maxRequests ELSE DefaultMaxRequests,
      keyGenerator |-> "defaultKeyGenerator",
      message      |-> IF "message" \in DOMAIN opts THEN opts.message ELSE DefaultMessage ]

\* variant: the ceiling is left out of the options, so the default of 10 applies
aiRateLimit_DefaultCeiling ==
    rateLimit([windowMs |-> 60 * 1000,
               message |-> "You've reached the message limit. Please wait a moment before sending more."])

aiRateLimit ==
    rateLimit([windowMs |-> 60 * 1000, maxRequests |-> 15,
               message |-> "You've reached the message limit. Please wait a moment before sending more."])

parseRateLimit ==
    rateLimit([windowMs |-> 60 * 1000, maxRequests |-> 5,
               message |-> "Too many parse requests. Please wait before trying again."])

\* the limiter instance a name stands for
Limiter(name) ==
    CASE name = "aiRateLimit"    -> aiRateLimit
      [] name = "parseRateLimit" -> parseRateLimit
      [] OTHER                   -> rateLimit(options)

Keys == {defaultKeyGenerator(req) : req \in Requests}

\* new Map(): no key is present
EmptyMap == [k \in {} |-> 0]

\* a response object on which nothing has been set yet
FreshResponse ==
    [headers |-> EmptyMap, statusCode |-> 200, body |-> <<>>, ended |-> FALSE, nextCalls |-> 0]

\* variant: the window test is left out, an entry once stored is reused for ever
Expired_NeverRolls(store, key, t) == key \notin DOMAIN store

\* variant: <= for <, the window is over from the instant resetTime on
Expired_RollsAtBoundary(store, key, t) ==
    IF key \in DOMAIN store THEN store[key].resetTime <= t ELSE TRUE

\* entry is undefined, or its window is over
Expired(store, key, t) ==
    IF key \in DOMAIN store THEN store[key].resetTime < t ELSE TRUE

\* the three quota headers
QuotaHeaders(limit, remaining, resetTime) ==
    "X-RateLimit-Limit" :> limit
    @@ "X-RateLimit-Remaining" :> remaining
    @@ "X-RateLimit-Reset" :> Ceil(resetTime, 1000)

\* variant: the new entry is stored in a map of its own, dropping the other keys
NewWindow_ClearsStore(L, key, t, store) ==
    LET entry == [count |-> 1, resetTime |-> t + L.windowMs]
    IN  [ store |-> [k \in {key} |-> entry],
          res   |-> [FreshResponse EXCEPT
                        !.headers = QuotaHeaders(L.maxRequests, L.maxRequests - 1, entry.resetTime),
                        !.nextCalls = 1] ]

\* first branch of the middleware: new entry, headers, next()
NewWindow(L, key, t, store) ==
    LET entry == [count |-> 1, resetTime |-> t + L.windowMs]
    IN  [ store |-> [k \in DOMAIN store \cup {key} |-> IF k = key THEN entry ELSE store[k]],
          res   |-> [FreshResponse EXCEPT
                        !.headers = QuotaHeaders(L.maxRequests, L.maxRequests - 1, entry.resetTime),
                        !.nextCalls = 1] ]

\* variant: the remaining budget is computed from the count before entry.count++
SameWindow_StaleRemaining(L, key, t, store) ==
    LET entry   == [store[key] EXCEPT !.count = @ + 1]
        headers == QuotaHeaders(L.maxRequests, Max(0, L.maxRequests - store[key].count), entry.resetTime)
        retryAfterSeconds == Ceil(entry.resetTime - t, 1000)
    IN  [ store |-> [store EXCEPT ![key] = entry],
          res   |-> IF entry.count > L.maxRequests
                    THEN [FreshResponse EXCEPT
                            !.headers = headers @@ ("Retry-After" :> retryAfterSeconds),
                            !.statusCode = 429,
                            !.body = << [error |-> L.message, code |-> "RATE_LIMITED",
                                         retryAfter |-> retryAfterSeconds] >>,
                            !.ended = TRUE]
                    ELSE [FreshResponse EXCEPT !.headers = headers, !.nextCalls = 1] ]

\* variant: the 429 branch does not return, so next() runs after the response was sent
SameWindow_FallsThrough(L, key, t, store) ==
    LET entry   == [store[key] EXCEPT !.count = @ + 1]
        headers == QuotaHeaders(L.maxRequests, Max(0, L.maxRequests - entry.count), entry.resetTime)
        retryAfterSeconds == Ceil(entry.resetTime - t, 1000)
    IN  [ store |-> [store EXCEPT ![key] = entry],
          res   |-> IF entry.count > L.maxRequests
                    THEN [FreshResponse EXCEPT
                            !.headers = headers @@ ("Retry-After" :> retryAfterSeconds),
                            !.statusCode = 429,
                            !.body = << [error |-> L.message, code |-> "RATE_LIMITED",
                                         retryAfter |-> retryAfterSeconds] >>,
                            !.ended = TRUE,
                            !.nextCalls = 1]
                    ELSE [FreshResponse EXCEPT !.headers = headers, !.nextCalls = 1] ]

\* variant: a rejected call restarts the window, resetTime = now + windowMs
SameWindow_SlidesOnReject(L, key, t, store) ==
    LET counted == [store[key] EXCEPT !.count = @ + 1]
        entry   == IF counted.count > L.maxRequests
                   THEN [counted EXCEPT !.resetTime = t + L.windowMs]
                   ELSE counted
        headers == QuotaHeaders(L.maxRequests, Max(0, L.maxRequests - entry.count), entry.resetTime)
        retryAfterSeconds == Ceil(entry.resetTime - t, 1000)
    IN  [ store |-> [store EXCEPT ![key] = entry],
          res   |-> IF entry.count > L.maxRequests
                    THEN [FreshResponse EXCEPT
                            !.headers = headers @@ ("Retry-After" :> retryAfterSeconds),
                            !.statusCode = 429,
                            !.body = << [error |-> L.message, code |-> "RATE_LIMITED",
                                         retryAfter |-> retryAfterSeconds] >>,
                            !.ended = TRUE]
                    ELSE [FreshResponse EXCEPT !.headers = headers, !.nextCalls = 1] ]

\* variant: entry.count++ only while the call is still within the ceiling
SameWindow_NoCountOnReject(L, key, t, store) ==
    LET entry   == IF store[key].count + 1 > L.maxRequests
                   THEN store[key]
                   ELSE [store[key] EXCEPT !.count = @ + 1]
        headers == QuotaHeaders(L.maxRequests, Max(0, L.maxRequests - entry.count), entry.resetTime)
        retryAfterSeconds == Ceil(entry.resetTime - t, 1000)
    IN  [ store |-> [store EXCEPT ![key] = entry],
          res   |-> IF store[key].count + 1 > L.maxRequests
                    THEN [FreshResponse EXCEPT
                            !.headers = headers @@ ("Retry-After" :> retryAfterSeconds),
                            !.statusCode = 429,
                            !.body = << [error |-> L.message, code |-> "RATE_LIMITED",
                                         retryAfter |-> retryAfterSeconds] >>,
                            !.ended = TRUE]
                    ELSE [FreshResponse EXCEPT !.headers = headers, !.nextCalls = 1] ]

\* rest of the middleware: entry.count++, headers, then 429 or next()
SameWindow(L, key, t, store) ==
    LET entry   == [store[key] EXCEPT !.count = @ + 1]
        headers == QuotaHeaders(L.maxRequests, Max(0, L.maxRequests - entry.count), entry.resetTime)
        retryAfterSeconds == Ceil(entry.resetTime - t, 1000)
    IN  [ store |-> [store EXCEPT ![key] = entry],
          res   |-> IF entry.count > L.maxRequests
                    THEN [FreshResponse EXCEPT
                            !.headers = headers @@ ("Retry-After" :> retryAfterSeconds),
                            !.statusCode = 429,
                            !.body = << [error |-> L.message, code |-> "RATE_LIMITED",
                                         retryAfter |-> retryAfterSeconds] >>,
                            !.ended = TRUE]
                    ELSE [FreshResponse EXCEPT !.headers = headers, !.nextCalls = 1] ]

\* the middleware returned by rateLimit(): one call, as a function of the store
Middleware(L, key, t, store) ==
    IF Expired(store, key, t) THEN NewWindow(L, key, t, store) ELSE SameWindow(L, key, t, store)

NoTally == [n \in LimiterNames |-> [admitted |-> 0, rejected |-> 0]]

Admitted(r) == r.nextCalls > 0

\* calls made on an entry so far, through any limiter
CallsOn(t) ==
    t["limiter"].admitted + t["limiter"].rejected
    + t["aiRateLimit"].admitted + t["aiRateLimit"].rejected
    + t["parseRateLimit"].admitted + t["parseRateLimit"].rejected

\* no middleware call has been made yet
NoCall ==
    [name |-> "", key |-> "", at |-> 0, nth |-> 0, nthOwn |-> 0, entry |-> <<>>, stored |-> <<>>]

\* the setInterval callback has not run yet
NoSweep == [at |-> -1, kept |-> {}, deleted |-> {}]

\* defaultKeyGenerator has not been handed a request
NoKeyed == [req |-> [sub |-> "", ip |-> "", remoteAddress |-> ""], key |-> ""]

\* variant: entries are dropped from resetTime on, the boundary instant included
Surviving_DeletesBoundary(store, t) == {k \in DOMAIN store : store[k].resetTime > t}

\* variant: entries are dropped only once they are a whole sweep interval old
Surviving_Lenient(store, t) ==
    {k \in DOMAIN store : ~(store[k].resetTime + SweepIntervalMs < t)}

\* variant: rateLimitStore.clear(), whatever the entries' resetTime
Surviving_None(store, t) == {}

\* the keys the sweep at time t leaves in the store: resetTime < t is deleted
Surviving(store, t) == {k \in DOMAIN store : ~(store[k].resetTime < t)}

(***************************************************************************)
(* Actions.                                                                *)
(***************************************************************************)
Init ==
    /\ now = 0
    /\ rateLimitStore = EmptyMap
    /\ nextSweep = SweepIntervalMs
    /\ options \in OptionChoices
    /\ res = FreshResponse
    /\ lastCall = NoCall
    /\ tally = [k \in Keys |-> NoTally]
    /\ requests = <<>>
    /\ swept = NoSweep
    /\ unswept = EmptyMap
    /\ admitLog = [k \in Keys |-> <<>>]
    /\ keyed = NoKeyed
    /\ AppInitial


\* one request goes through the middleware of limiter `name`
Handle(name, req) ==
    LET L     == Limiter(name)
        key   == defaultKeyGenerator(req)
        fresh == Expired(rateLimitStore, key, now)
        out   == Middleware(L, key, now, rateLimitStore)
        base  == IF fresh THEN NoTally ELSE tally[key]
    IN  /\ IF fresh THEN TRUE
           ELSE rateLimitStore[key].count < Max(L.maxRequests, 0) + MaxOver
        /\ rateLimitStore' = out.store
        /\ res' = out.res
        /\ lastCall' = [name |-> name, key |-> key, at |-> now,
                        nth |-> CallsOn(base) + 1,
                        nthOwn |-> base[name].admitted + base[name].rejected + 1,
                        entry |-> IF key \in DOMAIN rateLimitStore
                                  THEN <<rateLimitStore[key]>> ELSE <<>>,
                        stored |-> <<out.store[key]>>]
        /\ tally' = [tally EXCEPT ![key] =
                        IF Admitted(out.res)
                        THEN [base EXCEPT ![name].admitted = @ + 1]
                        ELSE [base EXCEPT ![name].rejected = @ + 1]]
        /\ UNCHANGED <<now, nextSweep, options, requests, swept, keyed, appVars>>

Call(name, req) == Handle(name, req) /\ UNCHANGED <<unswept, admitLog>>

\* the same call, replayed as well on the store that is never swept
CallShadowed(name, req) ==
    /\ Handle(name, req)
    /\ unswept' = Middleware(Limiter(name), defaultKeyGenerator(req), now, unswept).store
    /\ UNCHANGED admitLog

\* the times in log that are not before t
Since(log, t) == SelectSeq(log, LAMBDA x : x >= t)

\* the same call, its time appended to the key's admissions of the last windowMs
CallLogged(name, req) ==
    /\ Handle(name, req)
    /\ admitLog' = [admitLog EXCEPT ![defaultKeyGenerator(req)] =
                        IF Admitted(res')
                        THEN Append(Since(@, now - Limiter(name).windowMs), now)
                        ELSE @]
    /\ UNCHANGED unswept

\* the setInterval callback: delete every entry whose resetTime has passed
Expire ==
    LET kept == Surviving(rateLimitStore, now)
    IN  /\ now = nextSweep
        /\ rateLimitStore' = [k \in kept |-> rateLimitStore[k]]
        /\ tally' = [k \in Keys |-> IF k \in kept THEN tally[k] ELSE NoTally]
        /\ nextSweep' = nextSweep + SweepIntervalMs
        /\ UNCHANGED <<now, options, res, lastCall, requests, unswept, admitLog, keyed, appVars>>

Sweep == Expire /\ UNCHANGED swept

\* the same callback, with what it kept and deleted put on record
SweepRecorded ==
    /\ Expire
    /\ swept' = [at |-> now, kept |-> Surviving(rateLimitStore, now),
                 deleted |-> {[key |-> k, resetTime |-> rateLimitStore[k].resetTime] :
                                k \in DOMAIN rateLimitStore \ Surviving(rateLimitStore, now)}]

\* the clock advances to an instant of S; a due sweep runs before time moves past it
TickTo(S) ==
    /\ \E t \in S :
        /\ t > now
        /\ t <= nextSweep
        /\ now' = t
    /\ UNCHANGED <<rateLimitStore, nextSweep, options, res, lastCall, tally, requests,
                   swept, unswept, admitLog, keyed, appVars>>

Tick == TickTo(ClockValues)

Next ==
    \/ \E req \in Requests : Call("limiter", req)
    \/ Sweep
    \/ Tick

Spec == Init /\ [][Next]_vars

(***************************************************************************)
(* The limiter around its sweep timer: calls and sweeps near the sweep's   *)
(* due times, with the sweeps recorded and a never-swept store alongside.  *)
(***************************************************************************)
\* instants read around the first two runs of the sweep
SweepClock == {0, 298500, 300000, 300001, 600000, 600001}

\* the limiters exercised around the sweep: short window, ceiling 1 or 2
ReclaimOptions == {o \in OptionChoices : DOMAIN o = {"maxRequests", "windowMs"} /\ o.maxRequests >= 1}

InitReclaim == Init /\ options \in ReclaimOptions

NextReclaim ==
    \/ \E req \in Requests : CallShadowed("limiter", req)
    \/ SweepRecorded
    \/ TickTo(SweepClock)

SpecReclaim == InitReclaim /\ [][NextReclaim]_vars

(***************************************************************************)
(* The two exported instances, aiRateLimit and parseRateLimit, called for  *)
(* one subject.  Both close over the one module-level rateLimitStore.      *)
(***************************************************************************)
\* instants read inside and after the instances' 60 s window
AppClock == {0, 500, 60000, 60001, 300000}

\* the subject calling both instances
AppRequests == {req \in Requests : req.sub # ""}

InitApp == Init /\ options = EmptyMap

NextApp ==
    \/ \E req \in AppRequests : Call("aiRateLimit", req)
    \/ \E req \in AppRequests : Call("parseRateLimit", req)
    \/ Sweep
    \/ TickTo(AppClock)

SpecApp == InitApp /\ [][NextApp]_vars

(***************************************************************************)
(* One key called across a window boundary, its admissions logged.         *)
(***************************************************************************)
\* instants read on both sides of the end of a 1500 ms window
BurstClock == {0, 500, 1500, 1501, 2000, 300000}

\* the limiters exercised: short window, ceiling 0, 1 or 2
BurstOptions == {o \in OptionChoices : DOMAIN o = {"maxRequests", "windowMs"} /\ o.maxRequests >= 0}

InitBurst == Init /\ options \in BurstOptions

NextBurst ==
    \/ \E req \in AppRequests : CallLogged("limiter", req)
    \/ Sweep
    \/ TickTo(BurstClock)

SpecBurst == InitBurst /\ [][NextBurst]_vars

(***************************************************************************)
(* The limiter under a clock that keeps advancing, a sweep timer that      *)
(* fires when due and clients that keep calling.                           *)
(***************************************************************************)
\* the last instant the clock reads
LastInstant == 300001

\* short windows, every ceiling
LiveOptions == {o \in OptionChoices : DOMAIN o = {"maxRequests", "windowMs"}}

InitLive == Init /\ options \in LiveOptions

NextLive ==
    \/ \E req \in Requests : Call("limiter", req)
    \/ Sweep
    \/ Tick

SpecLive ==
    /\ InitLive
    /\ [][NextLive]_vars
    /\ WF_vars(Tick)
    /\ WF_vars(Sweep)
    /\ \A req \in Requests : WF_vars(Call("limiter", req))

(***************************************************************************)
(* defaultKeyGenerator on its own, applied to one request.                 *)
(***************************************************************************)
\* subject identifiers a request may carry ("" when req.user?.claims?.sub is missing)
KeySubs == {"", "u1", "u2", "10.0.0.1", "unknown"}

\* values of req.ip ("" when undefined)
KeyIps == {"", "10.0.0.1", "u1", "unknown"}

\* values of req.socket?.remoteAddress ("" when undefined)
KeyRemotes == {"", "10.0.0.2", "u1"}

KeyRequests == [sub : KeySubs, ip : KeyIps, remoteAddress : KeyRemotes]

InitKey ==
    /\ now = 0
    /\ rateLimitStore = EmptyMap
    /\ nextSweep = SweepIntervalMs
    /\ options = EmptyMap
    /\ res = FreshResponse
    /\ lastCall = NoCall
    /\ tally = [k \in Keys |-> NoTally]
    /\ requests = <<>>
    /\ swept = NoSweep
    /\ unswept = EmptyMap
    /\ admitLog = [k \in Keys |-> <<>>]
    /\ keyed \in {[req |-> r, key |-> ""] : r \in KeyRequests}
    /\ AppInitial


\* const key = keyGenerator(req)
GenerateKey ==
    /\ keyed.key = ""
    /\ keyed' = [keyed EXCEPT !.key = defaultKeyGenerator(keyed.req)]
    /\ UNCHANGED <<now, rateLimitStore, nextSweep, options, res, lastCall, tally, requests,
                   swept, unswept, admitLog, appVars>>

NextKey == GenerateKey

SpecKey == InitKey /\ [][NextKey]_vars

(***************************************************************************)
(* The two endpoints of registerRoutes that call the chat-completion API.  *)
(***************************************************************************)
Routes == {"POST /api/courses/parse", "POST /api/study-chats/message"}

\* the functions app.post() registers for a route, in order
RouteChain(route) ==
    CASE route = "POST /api/courses/parse"       -> <<"isAuthenticated", "handler">>
      [] route = "POST /api/study-chats/message" -> <<"isAuthenticated", "handler">>

\* a request as it arrives: nothing of its chain has run
Arrival(route, req, bodyValid) ==
    [ route |-> route, req |-> req, bodyValid |-> bodyValid,
      at |-> 1, ran |-> <<>>, upstreamCalls |-> 0, awaiting |-> FALSE, statusCode |-> 0 ]

\* the function of the chain the request is waiting to enter ("" past the end)
Stage(r) ==
    IF r.statusCode = 0 /\ ~r.awaiting /\ r.at <= Len(RouteChain(r.route))
    THEN RouteChain(r.route)[r.at] ELSE ""

\* isAuthenticated: next() for a request that carries a subject, 401 otherwise
isAuthenticated(r) ==
    IF r.req.sub # ""
    THEN [r EXCEPT !.ran = Append(@, "isAuthenticated"), !.at = @ + 1]
    ELSE [r EXCEPT !.ran = Append(@, "isAuthenticated"), !.statusCode = 401]

\* both handlers up to their await: 400 on a body the schema refuses, else
\* openai.chat.completions.create is called
HandlerStart(r) ==
    IF ~r.bodyValid
    THEN [r EXCEPT !.ran = Append(@, "handler"), !.statusCode = 400]
    ELSE [r EXCEPT !.ran = Append(@, "handler"), !.upstreamCalls = @ + 1, !.awaiting = TRUE]

\* the awaited completion resolves (response sent) or throws (500, or an
\* error event on a response already started)
HandlerFinish(r, ok) ==
    [r EXCEPT !.awaiting = FALSE, !.statusCode = IF ok THEN 200 ELSE 500]

\* the rate limiter as the module leaves it when loaded, no request received
LimiterInitial ==
    /\ now = 0
    /\ rateLimitStore = EmptyMap
    /\ nextSweep = SweepIntervalMs
    /\ options = EmptyMap
    /\ res = FreshResponse
    /\ lastCall = NoCall
    /\ tally = [k \in Keys |-> NoTally]
    /\ requests = <<>>
    /\ swept = NoSweep
    /\ unswept = EmptyMap
    /\ admitLog = [k \in Keys |-> <<>>]
    /\ keyed = NoKeyed

InitRoutes == LimiterInitial /\ AppInitial

LimiterIdle ==
    UNCHANGED <<now, rateLimitStore, nextSweep, options, res, lastCall, tally,
                swept, unswept, admitLog, keyed, appVars>>

Receive(route, req, bodyValid) ==
    /\ Len(requests) < MaxInflight
    /\ requests' = Append(requests, Arrival(route, req, bodyValid))
    /\ LimiterIdle

Authenticate(i) ==
    /\ Stage(requests[i]) = "isAuthenticated"
    /\ requests' = [requests EXCEPT ![i] = isAuthenticated(@)]
    /\ LimiterIdle

EnterHandler(i) ==
    /\ Stage(requests[i]) = "handler"
    /\ requests' = [requests EXCEPT ![i] = HandlerStart(@)]
    /\ LimiterIdle

CompleteHandler(i, ok) ==
    /\ requests[i].awaiting
    /\ requests' = [requests EXCEPT ![i] = HandlerFinish(@, ok)]
    /\ LimiterIdle

NextRoutes ==
    \/ \E route \in Routes, req \in Requests, bodyValid \in BOOLEAN : Receive(route, req, bodyValid)
    \/ \E i \in DOMAIN requests : Authenticate(i)
    \/ \E i \in DOMAIN requests : EnterHandler(i)
    \/ \E i \in DOMAIN requests, ok \in BOOLEAN : CompleteHandler(i, ok)

SpecRoutes == InitRoutes /\ [][NextRoutes]_vars

(***************************************************************************)
(* POST /api/study-chats/message: one request, from validation to the end  *)
(* of its response, every await a step that may also reject.               *)
(***************************************************************************)
RECURSIVE Concat(_)
\* the strings of a sequence joined in order, as += builds fullResponse
Concat(strings) ==
    IF strings = <<>> THEN "" ELSE strings[1] \o Concat(Tail(strings))

\* a timestamp later than every updatedAt in the table
DbStamp(chats) ==
    IF chats = <<>> THEN 1
    ELSE 1 + (CHOOSE m \in {chats[i].updatedAt : i \in DOMAIN chats} :
                \A i \in DOMAIN chats : chats[i].updatedAt <= m)

\* select ... where userId = ? order by updatedAt desc limit 1
LatestChat(chats, userId) ==
    LET mine == {i \in DOMAIN chats : chats[i].userId = userId}
    IN  IF mine = {} THEN <<>>
        ELSE << chats[CHOOSE i \in mine : \A j \in mine : chats[j].updatedAt <= chats[i].updatedAt] >>

\* insert into study_chats ... returning
InsertChat(chats, userId) ==
    Append(chats, [id |-> Len(chats) + 1, userId |-> userId, updatedAt |-> DbStamp(chats)])

\* storage.getCurrentStudyChat run to completion: the latest chat of the
\* user, created when there is none, with its messages
getCurrentStudyChat(chats, messages, userId) ==
    LET found  == LatestChat(chats, userId)
        table  == IF found = <<>> THEN InsertChat(chats, userId) ELSE chats
        row    == IF found = <<>> THEN table[Len(table)] ELSE found[1]
    IN  [ chats |-> table,
          chat  |-> [id |-> row.id, userId |-> row.userId,
                     messages |-> SelectSeq(messages, LAMBDA m : m.chatId = row.id)] ]

\* storage.createStudyChatMessage: insert the message, then touch the chat
createStudyChatMessage(chats, messages, message) ==
    [ messages |-> Append(messages, message),
      chats    |-> [i \in DOMAIN chats |->
                      IF chats[i].id = message.chatId
                      THEN [chats[i] EXCEPT !.updatedAt = DbStamp(chats)]
                      ELSE chats[i]] ]

\* res.write(`data: ${JSON.stringify(event)}\n\n`)
SseWrite(r, event) == [r EXCEPT !.headersSent = TRUE, !.events = Append(@, event)]

\* res.status(code).json(body)
SendJson(r, code, body) ==
    [r EXCEPT !.headersSent = TRUE, !.statusCode = code, !.body = <<body>>, !.ended = TRUE]

\* variant: each event carries the response accumulated so far
RelayChunk_WritesAccumulated(r, full, chunkContent) ==
    IF chunkContent # ""
    THEN [res |-> SseWrite(r, [content |-> full \o chunkContent]), fullResponse |-> full \o chunkContent]
    ELSE [res |-> r, fullResponse |-> full]

\* variant: fullResponse = chunkContent, the earlier chunks forgotten
RelayChunk_KeepsLastOnly(r, full, chunkContent) ==
    IF chunkContent # ""
    THEN [res |-> SseWrite(r, [content |-> chunkContent]), fullResponse |-> chunkContent]
    ELSE [res |-> r, fullResponse |-> full]

\* body of the for-await loop: a chunk with content is appended to
\* fullResponse and written to the client, one without is skipped
RelayChunk(r, full, chunkContent) ==
    IF chunkContent # ""
    THEN [res |-> SseWrite(r, [content |-> chunkContent]), fullResponse |-> full \o chunkContent]
    ELSE [res |-> r, fullResponse |-> full]

\* variant: the error event is written but the response is left open
Catch_LeavesOpen(r) ==
    IF r.headersSent
    THEN SseWrite(r, [error |-> "Failed to send message"])
    ELSE SendJson(r, 500, [error |-> "Failed to send message"])

\* the catch block: an error event on a started response, an HTTP 500 otherwise
Catch(r) ==
    IF r.headersSent
    THEN [SseWrite(r, [error |-> "Failed to send message"]) EXCEPT !.ended = TRUE]
    ELSE SendJson(r, 500, [error |-> "Failed to send message"])

\* the awaits of the handler, in order
ChatAwaits ==
    <<"getCurrentStudyChat", "saveUserMessage", "loadContext", "openStream",
      "stream", "saveAssistantMessage">>

\* tables as the request finds them: empty, or holding an earlier chat
ChatTables ==
    { [chats |-> <<>>, messages |-> <<>>],
      [chats    |-> << [id |-> 1, userId |-> "u1", updatedAt |-> 1] >>,
       messages |-> << [chatId |-> 1, role |-> "user", content |-> "earlier"],
                       [chatId |-> 1, role |-> "assistant", content |-> "b"] >>] }

InitChat ==
    /\ LimiterInitial
    /\ OutsideChatInitial
    /\ chatReq \in {[sub |-> "u1", content |-> c] : c \in ChatBodies}
    /\ chatPc = "validate"
    /\ chat = <<>>
    /\ chatRes = FreshChatResponse
    /\ fullResponse = ""
    /\ upstream = <<>>
    /\ thrownAt = ""
    /\ \E t \in ChatTables : studyChats = t.chats /\ studyChatMessages = t.messages

\* chatMessageSchema.safeParse(req.body): content is a string of 1..10000 characters
Validate ==
    /\ chatPc = "validate"
    /\ IF chatReq.content = ""
       THEN /\ chatRes' = SendJson(chatRes, 400, [error |-> "Invalid request data"])
            /\ chatPc' = "finished"
       ELSE /\ chatRes' = chatRes
            /\ chatPc' = "getCurrentStudyChat"
    /\ UNCHANGED <<chatReq, chat, fullResponse, upstream, thrownAt, studyChats, studyChatMessages>>
    /\ UNCHANGED outsideChat

\* const chat = await storage.getCurrentStudyChat(userId)
GetChat ==
    /\ chatPc = "getCurrentStudyChat"
    /\ LET got == getCurrentStudyChat(studyChats, studyChatMessages, chatReq.sub)
       IN  /\ studyChats' = got.chats
           /\ chat' = <<got.chat>>
    /\ chatPc' = "saveUserMessage"
    /\ UNCHANGED <<chatReq, chatRes, fullResponse, upstream, thrownAt, studyChatMessages>>
    /\ UNCHANGED outsideChat

\* await storage.createStudyChatMessage({chatId, role: "user", content})
SaveUserMessage ==
    /\ chatPc = "saveUserMessage"
    /\ LET saved == createStudyChatMessage(studyChats, studyChatMessages,
                        [chatId |-> chat[1].id, role |-> "user", content |-> chatReq.content])
       IN  /\ studyChats' = saved.chats
           /\ studyChatMessages' = saved.messages
    /\ chatPc' = "loadContext"
    /\ UNCHANGED <<chatReq, chat, chatRes, fullResponse, upstream, thrownAt>>
    /\ UNCHANGED outsideChat

\* profile and courses are read, the prompt is built, the SSE headers are set
\* (res.setHeader sends nothing: res.headersSent stays false)
LoadContext ==
    /\ chatPc = "loadContext"
    /\ chatPc' = "openStream"
    /\ UNCHANGED <<chatReq, chat, chatRes, fullResponse, upstream, thrownAt,
                   studyChats, studyChatMessages>>
    /\ UNCHANGED outsideChat

\* const stream = await openai.chat.completions.create({..., stream: true})
OpenStream ==
    /\ chatPc = "openStream"
    /\ chatPc' = "stream"
    /\ UNCHANGED <<chatReq, chat, chatRes, fullResponse, upstream, thrownAt,
                   studyChats, studyChatMessages>>
    /\ UNCHANGED outsideChat

\* one turn of for await (const chunk of stream)
ReceiveChunk(chunkContent) ==
    /\ chatPc = "stream"
    /\ Len(upstream) < MaxChunks
    /\ upstream' = Append(upstream, chunkContent)
    /\ LET relayed == RelayChunk(chatRes, fullResponse, chunkContent)
       IN  /\ chatRes' = relayed.res
           /\ fullResponse' = relayed.fullResponse
    /\ UNCHANGED <<chatReq, chatPc, chat, thrownAt, studyChats, studyChatMessages>>
    /\ UNCHANGED outsideChat

\* the stream is exhausted: the loop is left
StreamEnd ==
    /\ chatPc = "stream"
    /\ chatPc' = "saveAssistantMessage"
    /\ UNCHANGED <<chatReq, chat, chatRes, fullResponse, upstream, thrownAt,
                   studyChats, studyChatMessages>>
    /\ UNCHANGED outsideChat

\* await storage.createStudyChatMessage({chatId, role: "assistant", content: fullResponse})
SaveAssistantMessage ==
    /\ chatPc = "saveAssistantMessage"
    /\ LET saved == createStudyChatMessage(studyChats, studyChatMessages,
                        [chatId |-> chat[1].id, role |-> "assistant", content |-> fullResponse])
       IN  /\ studyChats' = saved.chats
           /\ studyChatMessages' = saved.messages
    /\ chatPc' = "sendDone"
    /\ UNCHANGED <<chatReq, chat, chatRes, fullResponse, upstream, thrownAt>>
    /\ UNCHANGED outsideChat

\* the await has resolved: the done event is written and the response ended
SendDone ==
    /\ chatPc = "sendDone"
    /\ chatRes' = [SseWrite(chatRes, [done |-> TRUE]) EXCEPT !.ended = TRUE]
    /\ chatPc' = "finished"
    /\ UNCHANGED <<chatReq, chat, fullResponse, upstream, thrownAt, studyChats, studyChatMessages>>
    /\ UNCHANGED outsideChat

\* the await the handler is at rejects and the catch block runs; a rejection
\* of createStudyChatMessage may come from its update, the insert already done
Throw(inserted) ==
    /\ \E i \in DOMAIN ChatAwaits : chatPc = ChatAwaits[i]
    /\ inserted => chatPc \in {"saveUserMessage", "saveAssistantMessage"}
    /\ thrownAt' = chatPc
    /\ chatRes' = Catch(chatRes)
    /\ chatPc' = "finished"
    /\ studyChatMessages' =
          IF inserted
          THEN Append(studyChatMessages,
                      [chatId |-> chat[1].id,
                       role |-> IF chatPc = "saveUserMessage" THEN "user" ELSE "assistant",
                       content |-> IF chatPc = "saveUserMessage" THEN chatReq.content ELSE fullResponse])
          ELSE studyChatMessages
    /\ UNCHANGED <<chatReq, chat, fullResponse, upstream, studyChats>>
    /\ UNCHANGED outsideChat

NextChat ==
    \/ Validate
    \/ GetChat
    \/ SaveUserMessage
    \/ LoadContext
    \/ OpenStream
    \/ \E chunkContent \in ChunkContents : ReceiveChunk(chunkContent)
    \/ StreamEnd
    \/ SaveAssistantMessage
    \/ SendDone
    \/ \E inserted \in BOOLEAN : Throw(inserted)

SpecChat == InitChat /\ [][NextChat]_vars

\* every await settles: the handler is never left suspended for ever
SpecChatFair == SpecChat /\ WF_vars(NextChat)

(***************************************************************************)
(* storage.getCurrentStudyChat called concurrently: each call is a select, *)
(* an insert when the select found nothing, and a select of the messages,  *)
(* and other calls may run between its awaits.                             *)
(***************************************************************************)
\* getCurrentStudyChat calls in progress at once
MaxCallers == 3

\* the users calling
CallUsers == {"u1", "u2"}

\* a call that has not run yet
NewCall(userId) == [userId |-> userId, pc |-> "select", chat |-> <<>>, returned |-> <<>>]

InitCalls ==
    /\ LimiterInitial
    /\ ChatInitial
    /\ OwnerInitial /\ ReaderInitial /\ WizardInitial
    /\ calls \in [1..MaxCallers -> {NewCall(u) : u \in CallUsers}]

\* let [chat] = await db.select()...where(eq(studyChats.userId, userId))...limit(1)
SelectChat(c) ==
    /\ calls[c].pc = "select"
    /\ LET found == LatestChat(studyChats, calls[c].userId)
       IN  calls' = [calls EXCEPT ![c].chat = found,
                                  ![c].pc = IF found = <<>> THEN "insert" ELSE "messages"]
    /\ UNCHANGED <<studyChats, studyChatMessages>>
    /\ UNCHANGED outsideCalls

\* if (!chat) [chat] = await db.insert(studyChats).values({userId, title}).returning()
InsertNewChat(c) ==
    /\ calls[c].pc = "insert"
    /\ studyChats' = InsertChat(studyChats, calls[c].userId)
    /\ calls' = [calls EXCEPT ![c].chat = << studyChats'[Len(studyChats')] >>,
                              ![c].pc = "messages"]
    /\ UNCHANGED studyChatMessages
    /\ UNCHANGED outsideCalls

\* const messages = await db.select()...; return { ...chat, messages }
SelectMessages(c) ==
    /\ calls[c].pc = "messages"
    /\ calls' = [calls EXCEPT
                    ![c].returned = << [id |-> calls[c].chat[1].id,
                                        userId |-> calls[c].chat[1].userId,
                                        messages |-> SelectSeq(studyChatMessages,
                                            LAMBDA m : m.chatId = calls[c].chat[1].id)] >>,
                    ![c].pc = "returned"]
    /\ UNCHANGED <<studyChats, studyChatMessages>>
    /\ UNCHANGED outsideCalls

NextCalls ==
    \/ \E c \in DOMAIN calls : SelectChat(c)
    \/ \E c \in DOMAIN calls : InsertNewChat(c)
    \/ \E c \in DOMAIN calls : SelectMessages(c)

SpecCalls == InitCalls /\ [][NextCalls]_vars

(***************************************************************************)
(* The routes that change or delete one task or one course by its id,      *)
(* called by two authenticated users.                                      *)
(***************************************************************************)
\* req.user.claims.sub of the callers
ApiUsers == {"u1", "u2"}

\* parseInt(req.params.id): 0 stands for a value the route refuses (NaN or
\* below 1), 3 for an id no row has
RouteIds == {0, 1, 2, 3}

\* bodies of PATCH /api/tasks/:id: two valid updates and an empty title
TaskUpdates == { [completed |-> TRUE], [title |-> "renamed"], [title |-> ""] }

\* taskUpdateSchema.safeParse(req.body).success
ValidTaskUpdate(body) == "title" \in DOMAIN body => body.title # ""

\* db.update(tasks).set({...data, updatedAt}).where(eq(tasks.id, id))
updateTask(table, id, data) ==
    [i \in DOMAIN table |-> IF i = id THEN data @@ table[i] ELSE table[i]]

\* db.delete(tasks).where(eq(tasks.id, id))
deleteTask(table, id) == [i \in DOMAIN table \ {id} |-> table[i]]

\* db.delete(courses).where(eq(courses.id, id))
deleteCourse(table, id) == [i \in DOMAIN table \ {id} |-> table[i]]

InitOwner ==
    /\ LimiterInitial
    /\ ChatInitial /\ CallsInitial /\ ReaderInitial /\ WizardInitial
    /\ tasks = (1 :> [userId |-> "u1", title |-> "essay", completed |-> FALSE]
                @@ 2 :> [userId |-> "u2", title |-> "lab report", completed |-> FALSE])
    /\ courses = (1 :> [userId |-> "u1", name |-> "Algebra"]
                  @@ 2 :> [userId |-> "u2", name |-> "Biology"])
    /\ apiRequest = NoApiRequest

\* app.patch("/api/tasks/:id", isAuthenticated, handler)
PatchTask(sub, id, body) ==
    /\ IF id < 1 \/ ~ValidTaskUpdate(body)
       THEN /\ tasks' = tasks
            /\ apiRequest' = [sub |-> sub, route |-> "PATCH /api/tasks/:id", id |-> id,
                              statusCode |-> 400]
       ELSE /\ tasks' = updateTask(tasks, id, body)
            /\ apiRequest' = [sub |-> sub, route |-> "PATCH /api/tasks/:id", id |-> id,
                              statusCode |-> 200]
    /\ UNCHANGED courses
    /\ UNCHANGED outsideOwner

\* app.delete("/api/tasks/:id", isAuthenticated, handler)
DeleteTask(sub, id) ==
    /\ IF id < 1
       THEN /\ tasks' = tasks
            /\ apiRequest' = [sub |-> sub, route |-> "DELETE /api/tasks/:id", id |-> id,
                              statusCode |-> 400]
       ELSE /\ tasks' = deleteTask(tasks, id)
            /\ apiRequest' = [sub |-> sub, route |-> "DELETE /api/tasks/:id", id |-> id,
                              statusCode |-> 204]
    /\ UNCHANGED courses
    /\ UNCHANGED outsideOwner

\* app.delete("/api/courses/:id", isAuthenticated, handler)
DeleteCourse(sub, id) ==
    /\ IF id < 1
       THEN /\ courses' = courses
            /\ apiRequest' = [sub |-> sub, route |-> "DELETE /api/courses/:id", id |-> id,
                              statusCode |-> 400]
       ELSE /\ courses' = deleteCourse(courses, id)
            /\ apiRequest' = [sub |-> sub, route |-> "DELETE /api/courses/:id", id |-> id,
                              statusCode |-> 204]
    /\ UNCHANGED tasks
    /\ UNCHANGED outsideOwner

NextOwner ==
    \/ \E sub \in ApiUsers, id \in RouteIds, body \in TaskUpdates : PatchTask(sub, id, body)
    \/ \E sub \in ApiUsers, id \in RouteIds : DeleteTask(sub, id)
    \/ \E sub \in ApiUsers, id \in RouteIds : DeleteCourse(sub, id)

SpecOwner == InitOwner /\ [][NextOwner]_vars

(***************************************************************************)
(* The chat client: ChatInterface.sendMessage reading the event stream of  *)
(* one response.  Text is a sequence of characters, so that a read may end *)
(* anywhere in it.                                                         *)
(***************************************************************************)
\* content events of one response at most
MaxEvents == 2

\* the content carried by an event
WireContents == {"a", "b"}

\* the event sequences a response is made of: content events, then done
EventStreams ==
    { contents \o << [done |-> TRUE] >> :
        contents \in UNION { [1..n -> {[content |-> c] : c \in WireContents}] : n \in 0..MaxEvents } }

\* the characters of "data: "
DataPrefix == <<"d", "a", "t", "a", ":", " ">>

\* the characters of {"done":true}
DoneJson == <<"{", "\"", "d", "o", "n", "e", "\"", ":", "t", "r", "u", "e", "}">>

\* the characters of {"error":"Failed to send message"}
ErrorJson ==
    <<"{", "\"", "e", "r", "r", "o", "r", "\"", ":", "\"", "F", "a", "i", "l", "e", "d", " ", "t", "o", " ", "s", "e", "n", "d", " ", "m", "e", "s", "s", "a", "g", "e", "\"", "}">>

\* JSON.stringify(event)
JsonStringify(event) ==
    IF "content" \in DOMAIN event
    THEN <<"{", "\"", "c", "o", "n", "t", "e", "n", "t", "\"", ":", "\"">> \o <<event.content>> \o <<"\"", "}">>
    ELSE IF "done" \in DOMAIN event
    THEN DoneJson
    ELSE ErrorJson

\* `data: ${JSON.stringify(event)}\n\n`, what res.write puts on the wire
Frame(event) == DataPrefix \o JsonStringify(event) \o <<"\n", "\n">>

RECURSIVE WireOf(_)
\* the response body: the frames of the events in the order written
WireOf(events) ==
    IF events = <<>> THEN <<>> ELSE Frame(events[1]) \o WireOf(Tail(events))

\* the events the server can have written
WireEvents ==
    {[content |-> c] : c \in WireContents} \cup {[done |-> TRUE], [error |-> "Failed to send message"]}

\* JSON.parse(text): the event whose serialization text is, as << event >>;
\* << >> when JSON.parse throws, as it does on every cut-off serialization
JsonParse(text) ==
    IF \E e \in WireEvents : JsonStringify(e) = text
    THEN << CHOOSE e \in WireEvents : JsonStringify(e) = text >>
    ELSE <<>>

RECURSIVE Split(_, _)
\* text.split(separator) for a one-character separator
Split(text, separator) ==
    IF \A i \in DOMAIN text : text[i] # separator
    THEN << text >>
    ELSE LET at == CHOOSE i \in DOMAIN text :
                      text[i] = separator /\ \A j \in 1..(i - 1) : text[j] # separator
         IN  << SubSeq(text, 1, at - 1) >> \o Split(SubSeq(text, at + 1, Len(text)), separator)

\* line.startsWith("data: ")
StartsWithData(line) ==
    Len(line) >= Len(DataPrefix) /\ SubSeq(line, 1, Len(DataPrefix)) = DataPrefix

\* body of for (const line of lines): assistantContent after the line
HandleLine(content, line) ==
    IF ~StartsWithData(line) THEN content
    ELSE LET data == JsonParse(SubSeq(line, Len(DataPrefix) + 1, Len(line)))
         IN  IF data = <<>> THEN content
             ELSE IF "content" \in DOMAIN data[1] /\ data[1].content # ""
             THEN content \o data[1].content
             ELSE content

RECURSIVE HandleLines(_, _)
HandleLines(content, lines) ==
    IF lines = <<>> THEN content
    ELSE HandleLines(HandleLine(content, lines[1]), Tail(lines))

InitReader ==
    /\ LimiterInitial
    /\ ChatInitial /\ CallsInitial /\ OwnerInitial /\ WizardInitial
    /\ sentEvents \in EventStreams
    /\ wire = WireOf(sentEvents)
    /\ readPos = 0
    /\ assistantContent = ""
    /\ readerDone = FALSE

\* const { done, value } = await reader.read(), done false: the next n
\* characters arrive, are split into lines and handled
ReadChunk(n) ==
    /\ ~readerDone
    /\ readPos + n <= Len(wire)
    /\ LET chunk == SubSeq(wire, readPos + 1, readPos + n)
       IN  assistantContent' = HandleLines(assistantContent, Split(chunk, "\n"))
    /\ readPos' = readPos + n
    /\ UNCHANGED <<sentEvents, wire, readerDone>>
    /\ UNCHANGED outsideReader

\* reader.read() reports done: the loop is left
ReadDone ==
    /\ ~readerDone
    /\ readPos = Len(wire)
    /\ readerDone' = TRUE
    /\ UNCHANGED <<sentEvents, wire, readPos, assistantContent>>
    /\ UNCHANGED outsideReader

NextReader ==
    \/ \E n \in 1..Len(wire) : ReadChunk(n)
    \/ ReadDone

SpecReader == InitReader /\ [][NextReader]_vars

(***************************************************************************)
(* The onboarding page: three steps, one field each, Back and Continue.    *)
(***************************************************************************)
\* profile submissions followed
MaxSubmits == 2

\* texts typed into the university input: nothing, a blank, a name, a
\* name between blanks
UniversityInputs == { <<>>, <<" ">>, <<"M", "I", "T">>, <<" ", "M", " ">> }

\* items of the major and year selects
MajorItems == {"Computer Science", "Other"}

YearItems == {"Freshman", "Graduate"}

RECURSIVE TrimStart(_)
TrimStart(text) ==
    IF text # <<>> /\ text[1] = " " THEN TrimStart(Tail(text)) ELSE text

RECURSIVE TrimEnd(_)
TrimEnd(text) ==
    IF text # <<>> /\ text[Len(text)] = " " THEN TrimEnd(SubSeq(text, 1, Len(text) - 1)) ELSE text

\* String.prototype.trim
Trim(text) == TrimEnd(TrimStart(text))

\* variant: the check of step 2 is missing
handleNext_NoMajorCheck(s, u, m, y) ==
    IF s = 1 /\ Trim(u) = <<>> THEN [toast |-> "University Required", step |-> s, mutate |-> FALSE]
    ELSE IF s = 3 /\ y = "" THEN [toast |-> "Year Required", step |-> s, mutate |-> FALSE]
    ELSE IF s < 3 THEN [toast |-> "", step |-> s + 1, mutate |-> FALSE]
    ELSE [toast |-> "", step |-> s, mutate |-> TRUE]

\* handleNext on the state (step, university, major, year): the toast it
\* shows, the step it sets and whether it calls completeOnboarding.mutate()
handleNext(s, u, m, y) ==
    IF s = 1 /\ Trim(u) = <<>> THEN [toast |-> "University Required", step |-> s, mutate |-> FALSE]
    ELSE IF s = 2 /\ m = "" THEN [toast |-> "Major Required", step |-> s, mutate |-> FALSE]
    ELSE IF s = 3 /\ y = "" THEN [toast |-> "Year Required", step |-> s, mutate |-> FALSE]
    ELSE IF s < 3 THEN [toast |-> "", step |-> s + 1, mutate |-> FALSE]
    ELSE [toast |-> "", step |-> s, mutate |-> TRUE]

\* handleBack: the step it sets
handleBack(s) == IF s > 1 THEN s - 1 ELSE s

InitWizard ==
    /\ LimiterInitial
    /\ ChatInitial /\ CallsInitial /\ OwnerInitial /\ ReaderInitial
    /\ WizardInitial

\* onChange of the university input, rendered at step 1
EditUniversity(text) ==
    /\ step = 1
    /\ university' = text
    /\ UNCHANGED <<step, major, year, isPending, toastTitle, submitted>>
    /\ UNCHANGED outsideWizard

\* onValueChange of the major select, rendered at step 2
SelectMajor(item) ==
    /\ step = 2
    /\ major' = item
    /\ UNCHANGED <<step, university, year, isPending, toastTitle, submitted>>
    /\ UNCHANGED outsideWizard

\* onValueChange of the year select, rendered at step 3
SelectYear(item) ==
    /\ step = 3
    /\ year' = item
    /\ UNCHANGED <<step, university, major, isPending, toastTitle, submitted>>
    /\ UNCHANGED outsideWizard

\* a click on Continue / Get Started, disabled while the mutation is pending
ClickNext ==
    /\ ~isPending
    /\ LET next == handleNext(step, university, major, year)
       IN  /\ next.mutate => Len(submitted) < MaxSubmits
           /\ step' = next.step
           /\ toastTitle' = IF next.toast # "" THEN next.toast ELSE toastTitle
           /\ isPending' = next.mutate
           /\ submitted' = IF next.mutate
                           THEN Append(submitted, [step |-> step, university |-> university,
                                                   major |-> major, year |-> year])
                           ELSE submitted
    /\ UNCHANGED <<university, major, year>>
    /\ UNCHANGED outsideWizard

\* a click on Back
ClickBack ==
    /\ step' = handleBack(step)
    /\ UNCHANGED <<university, major, year, isPending, toastTitle, submitted>>
    /\ UNCHANGED outsideWizard

\* POST /api/profile settles: onSuccess (the page is about to be left) or onError
Settle(ok) ==
    /\ isPending
    /\ isPending' = FALSE
    /\ toastTitle' = IF ok THEN toastTitle ELSE "Error"
    /\ UNCHANGED <<step, university, major, year, submitted>>
    /\ UNCHANGED outsideWizard

NextWizard ==
    \/ \E text \in UniversityInputs : EditUniversity(text)
    \/ \E item \in MajorItems : SelectMajor(item)
    \/ \E item \in YearItems : SelectYear(item)
    \/ ClickNext
    \/ ClickBack
    \/ \E ok \in BOOLEAN : Settle(ok)

SpecWizard == InitWizard /\ [][NextWizard]_vars

(***************************************************************************)
(* Properties of the limiter.                                              *)
(***************************************************************************)
\* a middleware call has been made; res and lastCall describe it
CallMade == lastCall.name # ""

\* the limiter that handled the most recent call
CallLimiter == Limiter(lastCall.name)

\* the entry the most recent call left in the store
CallStored == lastCall.stored[1]

\* the most recent call found an entry whose window was over
CallRolledOver ==
    /\ CallMade
    /\ lastCall.entry # <<>>
    /\ lastCall.entry[1].resetTime < lastCall.at

QuotaHeaderNames == {"X-RateLimit-Limit", "X-RateLimit-Remaining", "X-RateLimit-Reset"}

\* C1: for a limiter with ceiling maxRequests >= 0, the calls for one key that it
\* admits between the creation of the key's entry and its windowEnd never
\* number more than maxRequests.
C1_AdmittedWithinCeiling ==
    \A k \in DOMAIN rateLimitStore : \A n \in LimiterNames :
        Limiter(n).maxRequests >= 0 => tally[k][n].admitted <= Limiter(n).maxRequests

\* C2: the i-th call on an entry, for i <= maxRequests, is admitted and reports
\* the remaining budget maxRequests - i (so 0 on the maxRequests-th call).
C2_RemainingCountsDown ==
    (CallMade /\ lastCall.nth <= CallLimiter.maxRequests) =>
        /\ Admitted(res)
        /\ ~res.ended
        /\ res.headers["X-RateLimit-Remaining"] = CallLimiter.maxRequests - lastCall.nth

\* C2 witness: the maxRequests-th call of a window, not the first, reports 0.
C2_Witness ==
    /\ CallMade
    /\ lastCall.nth = CallLimiter.maxRequests
    /\ lastCall.nth >= 2
    /\ Admitted(res)
    /\ res.headers["X-RateLimit-Remaining"] = 0

\* C3: the (maxRequests + 1)-th call on an entry is rejected with
\* retryAfterSeconds = ceil((windowEnd - now) / 1000) >= 0.
C3_CallPastCeilingRejected ==
    (CallMade /\ CallLimiter.maxRequests >= 0 /\ lastCall.nth = CallLimiter.maxRequests + 1) =>
        /\ ~Admitted(res)
        /\ res.statusCode = 429
        /\ "Retry-After" \in DOMAIN res.headers
        /\ res.headers["Retry-After"] = Ceil(CallStored.resetTime - lastCall.at, 1000)
        /\ res.headers["Retry-After"] >= 0

\* the most recent call found no entry (none yet, or swept) or an expired one
CallStartedWindow == CallMade /\ (lastCall.entry = <<>> \/ CallRolledOver)

\* C4: a call that finds the key's windowEnd passed (the old entry still
\* stored, or already swept) starts a new entry (count 1, windowEnd = now +
\* windowMs) and is admitted with remaining maxRequests - 1, whatever count
\* the old entry had reached.
C4_RolloverResets ==
    CallStartedWindow =>
        /\ CallStored = [count |-> 1, resetTime |-> lastCall.at + CallLimiter.windowMs]
        /\ Admitted(res)
        /\ res.headers["X-RateLimit-Remaining"] = CallLimiter.maxRequests - 1

\* C4 witness: the rollover follows a window in which two calls were rejected.
C4_Witness ==
    /\ CallRolledOver
    /\ CallLimiter.maxRequests >= 1
    /\ lastCall.entry[1].count >= CallLimiter.maxRequests + 2
    /\ lastCall.key \in DOMAIN rateLimitStore
    /\ rateLimitStore[lastCall.key].count = 1

\* the same store with every key but k forgotten
OnlyKey(store, k) == [j \in DOMAIN store \cap {k} |-> store[j]]

\* C5 (decision): what a call with key k decides, reports and stores for k
\* does not depend on the entries of other keys.
C5_DecisionLocal ==
    \A req \in Requests : \A n \in LimiterNames :
        LET k     == defaultKeyGenerator(req)
            whole == Middleware(Limiter(n), k, now, rateLimitStore)
            alone == Middleware(Limiter(n), k, now, OnlyKey(rateLimitStore, k))
        IN  /\ whole.res = alone.res
            /\ whole.store[k] = alone.store[k]

\* C5 (frame): a step that is not the sweep leaves every key other than the
\* called one as it was: present or absent, same count, same windowEnd.
C5_OtherKeysKept ==
    nextSweep' = nextSweep =>
        \A k \in Keys \ {lastCall'.key} :
            /\ (k \in DOMAIN rateLimitStore') = (k \in DOMAIN rateLimitStore)
            /\ k \in DOMAIN rateLimitStore => rateLimitStore'[k] = rateLimitStore[k]

\* C5: a call with key k leaves the entry of every other key unchanged, and
\* the decisions seen by one key are the same whatever is stored for others.
C5_KeysIsolated == [][C5_OtherKeysKept]_vars /\ []C5_DecisionLocal

\* C5 witness: a call for one key was made on its existing entry while the
\* other key holds an entry with a different count.
C5_Witness ==
    /\ CallMade
    /\ lastCall.entry # <<>>
    /\ \E k \in DOMAIN rateLimitStore \ {lastCall.key} :
          /\ lastCall.key \in DOMAIN rateLimitStore
          /\ rateLimitStore[k].count > rateLimitStore[lastCall.key].count
          /\ rateLimitStore[k].resetTime # rateLimitStore[lastCall.key].resetTime

\* C6: when N > maxRequests calls for one key are made through one limiter on
\* one entry, in whatever order the event loop runs them, exactly maxRequests
\* are admitted, N - maxRequests rejected, and the count is N.
C6_ExactlyCeilingAdmitted ==
    \A k \in DOMAIN rateLimitStore : \A n \in LimiterNames :
        LET N == tally[k][n].admitted + tally[k][n].rejected
        IN  (Limiter(n).maxRequests >= 0 /\ N = CallsOn(tally[k]) /\ N > Limiter(n).maxRequests) =>
                /\ tally[k][n].admitted = Limiter(n).maxRequests
                /\ tally[k][n].rejected = N - Limiter(n).maxRequests
                /\ rateLimitStore[k].count = N

\* C8: every call ends either admitted (the three quota headers set, next
\* called once, nothing sent) or rejected (the three headers and Retry-After
\* set, status 429, body with the message, RATE_LIMITED and retryAfter equal
\* to the Retry-After header, next not called).
C8_AdmitOrReject ==
    CallMade =>
        \/ /\ DOMAIN res.headers = QuotaHeaderNames
           /\ res.nextCalls = 1
           /\ ~res.ended
           /\ res.statusCode = 200
           /\ res.body = <<>>
        \/ /\ DOMAIN res.headers = QuotaHeaderNames \cup {"Retry-After"}
           /\ res.nextCalls = 0
           /\ res.ended
           /\ res.statusCode = 429
           /\ res.body = << [error |-> CallLimiter.message, code |-> "RATE_LIMITED",
                             retryAfter |-> res.headers["Retry-After"]] >>

\* C8 witness: a call was rejected by a limiter built with its own message.
C8_Witness ==
    /\ CallMade
    /\ res.statusCode = 429
    /\ CallLimiter.message = "slow down"
    /\ res.body[1].error = "slow down"

\* C9: on every call of a limiter with maxRequests >= 0 the reported
\* remaining budget is not negative, the reported ceiling is maxRequests and
\* the reported reset time is the entry's windowEnd in Unix seconds.
C9_QuotaReport ==
    (CallMade /\ CallLimiter.maxRequests >= 0) =>
        /\ res.headers["X-RateLimit-Remaining"] >= 0
        /\ res.headers["X-RateLimit-Limit"] = CallLimiter.maxRequests
        /\ res.headers["X-RateLimit-Reset"] = Ceil(CallStored.resetTime, 1000)

\* C10: with maxRequests = 0 no call is admitted; the first call for a key
\* creates the entry with count 1 and is rejected with
\* retryAfterSeconds = ceil(windowMs / 1000).
C10_ZeroCeilingAdmitsNothing ==
    (CallMade /\ CallLimiter.maxRequests = 0) =>
        /\ ~Admitted(res)
        /\ res.statusCode = 429
        /\ lastCall.nth = 1 =>
              /\ CallStored.count = 1
              /\ "Retry-After" \in DOMAIN res.headers
              /\ res.headers["Retry-After"] = Ceil(CallLimiter.windowMs, 1000)

\* the limiter instance meant for a route
RouteLimiter(route) ==
    IF route = "POST /api/study-chats/message" THEN "aiRateLimit" ELSE "parseRateLimit"

Range(seq) == {seq[i] : i \in DOMAIN seq}

\* C7: every request to the chat-message and schedule-parse endpoints passes
\* its rate-limit check before the handler runs, so no handler run and no
\* upstream chat-completion call happens without that check.
C7_HandlersBehindLimiter ==
    \A i \in DOMAIN requests :
        LET r == requests[i]
        IN  ("handler" \in Range(r.ran) \/ r.upstreamCalls > 0) =>
                \E j \in DOMAIN r.ran :
                    /\ r.ran[j] = RouteLimiter(r.route)
                    /\ \A h \in DOMAIN r.ran : r.ran[h] = "handler" => j < h

\* the step is a middleware call (every call stores or increments an entry)
IsCallStep == lastCall' # lastCall

\* C11: retry-after is never premature: when a call is rejected at time now
\* with retryAfterSeconds = r, the next call for the same key, made at
\* now + 1000 * r, is admitted (also when that instant is exactly windowEnd).
C11_RetryStep ==
    ( /\ IsCallStep
      /\ CallMade
      /\ res.statusCode = 429
      /\ lastCall'.key = lastCall.key
      /\ lastCall'.name = lastCall.name
      /\ lastCall'.at = lastCall.at + 1000 * res.headers["Retry-After"] )
    => Admitted(res')

C11_RetryAfterNeverPremature == [][C11_RetryStep]_vars

\* C12 (step): a sweep deletes no entry whose resetTime has not passed and
\* changes nothing in the entries it keeps.
C12_SweepStep ==
    nextSweep' # nextSweep =>
        /\ DOMAIN rateLimitStore' \subseteq DOMAIN rateLimitStore
        /\ \A k \in DOMAIN rateLimitStore :
              /\ rateLimitStore[k].resetTime >= now => k \in DOMAIN rateLimitStore'
              /\ k \in DOMAIN rateLimitStore' => rateLimitStore'[k] = rateLimitStore[k]

\* C12: the background sweep never deletes an entry whose windowEnd has not
\* yet passed at scan time, and leaves count and windowEnd of the entries it
\* keeps unchanged.
C12_SweepSparesLiveEntries == [][C12_SweepStep]_vars

\* C12 witness: one sweep deleted an expired entry and kept an entry whose
\* windowEnd is the very instant of the scan.
C12_Witness ==
    /\ swept.deleted # {}
    /\ \E k \in swept.kept :
          /\ k \in DOMAIN rateLimitStore
          /\ rateLimitStore[k].resetTime = swept.at

\* C13: once more than windowEnd plus one sweep interval has elapsed, the
\* entry is no longer in the store (a key called again after windowEnd holds
\* a new entry, with a new windowEnd).
C13_ReclaimedWithinInterval ==
    \A k \in DOMAIN rateLimitStore :
        now <= rateLimitStore[k].resetTime + SweepIntervalMs

\* C13 witness: an entry whose windowEnd was the instant of one sweep was
\* deleted by the next sweep, and the clock is past that sweep.
C13_Witness ==
    \E d \in swept.deleted :
        /\ d.resetTime + SweepIntervalMs = swept.at
        /\ now > swept.at
        /\ d.key \notin DOMAIN rateLimitStore

\* C14: whatever sweeps have run, the next call of any key decides, reports
\* and stores the same as it does on the store no sweep ever touched.
C14_SweepInvisible ==
    \A req \in Requests : \A n \in LimiterNames :
        LET k      == defaultKeyGenerator(req)
            real   == Middleware(Limiter(n), k, now, rateLimitStore)
            shadow == Middleware(Limiter(n), k, now, unswept)
        IN  /\ real.res = shadow.res
            /\ real.store[k] = shadow.store[k]

\* C14 witness: a call found no entry because the sweep had deleted the
\* key's expired entry, which the never-swept store still holds.
C14_Witness ==
    /\ CallMade
    /\ lastCall.entry = <<>>
    /\ lastCall.at >= swept.at
    /\ \E d \in swept.deleted : d.key = lastCall.key
    /\ lastCall.key \in DOMAIN unswept
    /\ unswept[lastCall.key] = rateLimitStore[lastCall.key]

\* C15: each limiter instance owns its counters: the count an instance sees
\* for a subject is the number of calls made through that instance, and the
\* first maxRequests calls made through it in a window are admitted, whatever
\* calls the subject makes through another instance.
C15_InstancesIsolated ==
    (CallMade /\ CallLimiter.maxRequests >= 1) =>
        /\ CallStored.count = lastCall.nthOwn
        /\ lastCall.nthOwn <= CallLimiter.maxRequests => Admitted(res)

\* C16: a limiter configured with a negative maxRequests is refused at
\* construction, so no call is ever handled by a limiter with maxRequests < 0.
C16_NegativeCeilingRefused ==
    CallMade => CallLimiter.maxRequests >= 0

\* C18: for a subject that uses only one of the two preconfigured limiters,
\* in a window of 60,000 ms the AI-chat limiter admits exactly the first 15
\* calls and rejects the 16th, and the schedule-parse limiter admits exactly
\* the first 5 and rejects the 6th.
C18_PreconfiguredCeilings ==
    (CallMade /\ lastCall.nthOwn = lastCall.nth) =>
        /\ lastCall.name = "aiRateLimit" => (Admitted(res) <=> lastCall.nth <= 15)
        /\ lastCall.name = "parseRateLimit" => (Admitted(res) <=> lastCall.nth <= 5)
        /\ ~Admitted(res) => res.statusCode = 429
        /\ lastCall.nth = 1 => CallStored.resetTime = lastCall.at + 60000

\* C18 witness: the subject's 16th call in a window, all through the AI-chat
\* limiter, is rejected.
C18_Witness ==
    /\ CallMade
    /\ lastCall.name = "aiRateLimit"
    /\ lastCall.nth = 16
    /\ lastCall.nthOwn = 16
    /\ res.statusCode = 429

\* C17: the default key is built from the subject identifier when the request
\* carries one, otherwise from the caller's network address, otherwise it is
\* one constant fallback key; and a key built from a subject identifier is
\* never the key of a request without one.
C17_DefaultKey ==
    keyed.key # "" =>
        LET r == keyed.req
        IN  /\ r.sub # "" => keyed.key = "user:" \o r.sub
            /\ (r.sub = "" /\ r.ip # "") => keyed.key = "ip:" \o r.ip
            /\ (r.sub = "" /\ r.ip = "" /\ r.remoteAddress # "") =>
                    keyed.key = "ip:" \o r.remoteAddress
            /\ (r.sub = "" /\ r.ip = "" /\ r.remoteAddress = "") => keyed.key = "ip:unknown"
            /\ r.sub # "" =>
                    \A q \in KeyRequests : q.sub = "" => defaultKeyGenerator(q) # keyed.key

\* C17 witness: the key was generated for a subject whose identifier reads
\* like the network address of another caller.
C17_Witness ==
    /\ keyed.key = "user:10.0.0.1"
    /\ \E q \in KeyRequests : q.sub = "" /\ q.ip = keyed.req.sub

\* the admitted calls of key k logged in the closed span [from, from + length]
AdmittedInSpan(k, from, length) ==
    Cardinality({i \in DOMAIN admitLog[k] :
                    admitLog[k][i] >= from /\ admitLog[k][i] <= from + length})

\* the most calls of one key admitted in any span of windowMs so far logged
\* stays within `bound`
BurstWithin(bound) ==
    \A k \in Keys : \A i \in DOMAIN admitLog[k] :
        AdmittedInSpan(k, admitLog[k][i], rateLimit(options).windowMs) <= bound

C20_CountIsCallsSinceCreation ==
    \A k \in DOMAIN rateLimitStore :
        /\ rateLimitStore[k].count >= 1
        /\ rateLimitStore[k].count = CallsOn(tally[k])

\* C20 witness: an entry two calls past a ceiling of 2, both of them rejected.
C20_Witness ==
    /\ rateLimit(options).maxRequests = 2
    /\ \E k \in DOMAIN rateLimitStore :
          /\ tally[k]["limiter"].rejected >= 2
          /\ rateLimitStore[k].count = tally[k]["limiter"].admitted + tally[k]["limiter"].rejected
          /\ rateLimitStore[k].count >= rateLimit(options).maxRequests + 2

\* C21: an entry's windowEnd is set once, to the time of the call that creates
\* the entry plus the windowMs of the limiter handling that call; no later
\* step changes it while the entry is stored, and an entry is only created by
\* a call that finds its key absent or expired.
C21_WindowStep ==
    \A k \in DOMAIN rateLimitStore' :
        \/ /\ k \in DOMAIN rateLimitStore
           /\ rateLimitStore'[k].resetTime = rateLimitStore[k].resetTime
        \/ /\ IsCallStep
           /\ lastCall'.key = k
           /\ IF k \in DOMAIN rateLimitStore THEN rateLimitStore[k].resetTime < now ELSE TRUE
           /\ rateLimitStore'[k].resetTime = now + Limiter(lastCall'.name).windowMs

C21_WindowEndFixed == [][C21_WindowStep]_vars

\* C21 witness: a call made later than the creation of an unexpired entry is
\* rejected and leaves the entry's windowEnd where it was.
C21_Witness ==
    /\ CallMade
    /\ lastCall.entry # <<>>
    /\ ~CallRolledOver
    /\ res.statusCode = 429
    /\ lastCall.at > lastCall.entry[1].resetTime - CallLimiter.windowMs
    /\ CallStored.resetTime = lastCall.entry[1].resetTime

\* C22: the window boundary is exclusive for rollover: a call that finds an
\* entry and arrives no later than its windowEnd, the instant windowEnd
\* included, is counted against that entry (count + 1, windowEnd kept); only a
\* call arriving after windowEnd replaces the entry with a fresh one.
C22_BoundaryExclusive ==
    (CallMade /\ lastCall.entry # <<>>) =>
        LET entry == lastCall.entry[1]
        IN  IF lastCall.at > entry.resetTime
            THEN CallStored = [count |-> 1, resetTime |-> lastCall.at + CallLimiter.windowMs]
            ELSE CallStored = [count |-> entry.count + 1, resetTime |-> entry.resetTime]

\* C22 witness: a call arrives at exactly windowEnd and is counted against the
\* entry it finds.
C22_Witness ==
    /\ CallMade
    /\ lastCall.entry # <<>>
    /\ lastCall.at = lastCall.entry[1].resetTime
    /\ CallStored.count = lastCall.entry[1].count + 1
    /\ rateLimitStore[lastCall.key] = CallStored

\* the most recent call was for key k and was rejected
RejectedFor(k) == CallMade /\ lastCall.key = k /\ res.statusCode = 429

\* the most recent call was for key k and was admitted
AdmittedFor(k) == CallMade /\ lastCall.key = k /\ Admitted(res)

\* C23: no starvation by rejection: when a key's call is rejected and the
\* clock goes on past the entry's windowEnd, a call for that key is eventually
\* admitted, and every call that arrives after windowEnd is admitted.
C23_NoStarvation ==
    /\ \A k \in Keys :
          (RejectedFor(k) /\ CallStored.resetTime < LastInstant) ~> AdmittedFor(k)
    /\ [](CallRolledOver => Admitted(res))

\* C23 witness: a key whose window ended with calls rejected is admitted by
\* its first call after windowEnd.
C23_Witness ==
    /\ CallRolledOver
    /\ lastCall.entry[1].count > Max(CallLimiter.maxRequests, 0)
    /\ lastCall.nth = 1
    /\ AdmittedFor(lastCall.key)

(***************************************************************************)
(* Properties of the chat endpoint.                                        *)
(***************************************************************************)
\* the events of a response that carry content, in the order written
ContentEvents(events) == SelectSeq(events, LAMBDA e : "content" \in DOMAIN e)

\* the content of those events, in the order written
SentContents(events) ==
    [i \in 1..Len(ContentEvents(events)) |-> ContentEvents(events)[i].content]

DoneSent == \E i \in DOMAIN chatRes.events : chatRes.events[i] = [done |-> TRUE]

ErrorsSent == {i \in DOMAIN chatRes.events : "error" \in DOMAIN chatRes.events[i]}

\* C24: the chat endpoint is a pass-through: the content events written so
\* far are exactly the non-empty chunks received so far, in the order
\* received, and a done event comes after every content event, is the last
\* event and is followed only by the end of the response.
C24_PassThrough ==
    /\ SentContents(chatRes.events) = SelectSeq(upstream, LAMBDA c : c # "")
    /\ \A i \in DOMAIN chatRes.events :
          chatRes.events[i] = [done |-> TRUE] =>
              /\ i = Len(chatRes.events)
              /\ \A j \in 1..(i - 1) : "content" \in DOMAIN chatRes.events[j]
              /\ chatRes.ended
              /\ chatPc = "finished"

\* C24 witness: three chunks, the second of them empty, relayed as two
\* content events and followed by done.
C24_Witness ==
    /\ upstream = <<"a", "", "b">>
    /\ chatRes.events = << [content |-> "a"], [content |-> "b"], [done |-> TRUE] >>
    /\ chatRes.ended

\* the rows added to the chat's messages since getCurrentStudyChat read them
NewRows ==
    LET rows == SelectSeq(studyChatMessages, LAMBDA m : m.chatId = chat[1].id)
    IN  SubSeq(rows, Len(chat[1].messages) + 1, Len(rows))

UserRow == [chatId |-> chat[1].id, role |-> "user", content |-> chatReq.content]

\* C25: when the done event has been sent, the chat holds an assistant message
\* whose content is the concatenation, in order, of the content events sent
\* for the request; the user's message is stored before the first event is
\* sent; and no assistant message is stored when the stream fails.
C25_StoredMatchesSent ==
    /\ chatRes.events # <<>> =>
          /\ NewRows # <<>>
          /\ NewRows[1] = UserRow
    /\ DoneSent =>
          NewRows = << UserRow,
                       [chatId |-> chat[1].id, role |-> "assistant",
                        content |-> Concat(SentContents(chatRes.events))] >>
    /\ thrownAt \in {"openStream", "stream"} =>
          \A i \in DOMAIN NewRows : NewRows[i].role # "assistant"

\* C25 witness: done follows two content events and the stored answer is
\* their concatenation.
C25_Witness ==
    /\ DoneSent
    /\ SentContents(chatRes.events) = <<"b", "a">>
    /\ studyChatMessages[Len(studyChatMessages)].content = "ba"
    /\ studyChatMessages[Len(studyChatMessages)].role = "assistant"

\* the response ended with done: the last event, and no error event
EndedWithDone ==
    /\ chatRes.events # <<>>
    /\ chatRes.events[Len(chatRes.events)] = [done |-> TRUE]
    /\ ErrorsSent = {}
    /\ chatRes.body = <<>>
    /\ thrownAt = ""

\* the response had started when the failure came: one error event, the last
EndedWithErrorEvent ==
    /\ thrownAt # ""
    /\ Len(chatRes.events) >= 2
    /\ ErrorsSent = {Len(chatRes.events)}
    /\ ~DoneSent
    /\ chatRes.body = <<>>
    /\ chatRes.statusCode = 200

\* nothing had been sent when the failure came: HTTP 500 with a JSON body
EndedWithHttp500 ==
    /\ thrownAt # ""
    /\ chatRes.events = <<>>
    /\ chatRes.statusCode = 500
    /\ chatRes.body = << [error |-> "Failed to send message"] >>

\* C26: every request that passes validation terminates, its response ended,
\* with exactly one outcome: a done event, or a single error event when the
\* failure came after the response had started, or an HTTP 500 JSON error
\* when nothing had been sent; done and error are never both sent.
C26_OneTerminalOutcome ==
    /\ []((chatPc = "finished" /\ chatReq.content # "") =>
            /\ chatRes.ended
            /\ \/ EndedWithDone /\ ~EndedWithErrorEvent /\ ~EndedWithHttp500
               \/ ~EndedWithDone /\ EndedWithErrorEvent /\ ~EndedWithHttp500
               \/ ~EndedWithDone /\ ~EndedWithErrorEvent /\ EndedWithHttp500)
    /\ [](~(DoneSent /\ ErrorsSent # {}))
    /\ [](chatRes.ended => chatPc = "finished")
    /\ <>(chatPc = "finished")

\* C26 witness: the assistant message cannot be saved after two content
\* events were sent: the response ends with one error event.
C26_Witness ==
    /\ chatPc = "finished"
    /\ thrownAt = "saveAssistantMessage"
    /\ Len(ContentEvents(chatRes.events)) = 2
    /\ EndedWithErrorEvent
    /\ chatRes.ended

(***************************************************************************)
(* Properties of the storage layer and of the routes that write through it.*)
(***************************************************************************)
\* the rows of study_chats that belong to a user
ChatsOf(userId) == {i \in DOMAIN studyChats : studyChats[i].userId = userId}

\* C27: getCurrentStudyChat is get-or-create with at most one creation:
\* whatever the number of concurrent calls for a user who had no chat, the
\* table holds at most one chat of that user, and the calls that have
\* returned all returned that chat.
C27_AtMostOneCreation ==
    \A u \in CallUsers :
        /\ Cardinality(ChatsOf(u)) <= 1
        /\ \A c, d \in DOMAIN calls :
              ( /\ calls[c].userId = u /\ calls[d].userId = u
                /\ calls[c].pc = "returned" /\ calls[d].pc = "returned" )
              => calls[c].returned[1].id = calls[d].returned[1].id

\* the rows of a table that belong to someone other than `sub`
RowsOfOthers(table, sub) == {i \in DOMAIN table : table[i].userId # sub}

\* C28: a request of one user never updates or deletes a task or a course of
\* another user: after a PATCH /api/tasks/:id, DELETE /api/tasks/:id or
\* DELETE /api/courses/:id every row whose userId differs from the caller's
\* is still there, unchanged.
C28_OwnerStep ==
    /\ \A i \in RowsOfOthers(tasks, apiRequest'.sub) :
          i \in DOMAIN tasks' /\ tasks'[i] = tasks[i]
    /\ \A i \in RowsOfOthers(courses, apiRequest'.sub) :
          i \in DOMAIN courses' /\ courses'[i] = courses[i]

C28_OthersRowsUntouched == [][C28_OwnerStep]_vars

(***************************************************************************)
(* Properties of the client pages.                                         *)
(***************************************************************************)
\* C29: when the stream has ended, the assistant text the chat client shows
\* is the concatenation, in order, of the content events the server sent,
\* wherever the transport cut the stream into reads.
C29_DisplayedEqualsSent ==
    readerDone => assistantContent = Concat(SentContents(sentEvents))

\* C30: in the onboarding wizard step stays in {1, 2, 3}, and the profile is
\* submitted only at step 3 with university, major and year all non-empty.
C30_WizardSubmitsComplete ==
    /\ step \in {1, 2, 3}
    /\ \A i \in DOMAIN submitted :
          /\ submitted[i].step = 3
          /\ submitted[i].university # <<>>
          /\ submitted[i].major # ""
          /\ submitted[i].year # ""

\* C30 witness: after going back to change the university, the profile is
\* submitted a second time.
C30_Witness ==
    /\ Len(submitted) = 2
    /\ submitted[1].university # submitted[2].university
    /\ step = 3

====
